---------------------------- MODULE Spec2Model ----------------------------
(***************************************************************************)
(* A model of rt-cloud's BIDS Incremental (rtCommon/bidsIncremental.py):   *)
(* construction of a BidsIncremental from (image, imageMetadata,           *)
(* datasetMetadata), its metadata field operations, and the archive append *)
(* engine that merges incrementals into an on-disk BIDS archive.           *)
(***************************************************************************)
EXTENDS Integers, Sequences, FiniteSets, TLC

VARIABLES
    argImage,            \* the caller's image argument: [kind, shape, pixdim4]
    argImageMetadata,    \* the caller's raw imageMetadata mapping
    argDatasetMetadata,  \* the caller's datasetMetadata: [given, map]
    pc,                  \* "new" | "constructed" | "failed"
    err,                 \* the exception __init__ raised, "none" if it returned
    missingFields,       \* the field list a MissingMetadataError reports
    imgMetadata,         \* self._imgMetadata
    datasetMetadata,     \* self.datasetMetadata
    imageDimensions,     \* self.imageDimensions (header.get_data_shape())
    pixdim4,             \* self.imageHeader["pixdim"][4]
    last,                \* the last field operation and its outcome
    binding,             \* the mapping object self._imgMetadata is, and what it shares
    archive,             \* the BIDS archive: [images, sidecars, dirs]
    appendArgs,          \* the last append's arguments: [inc, createPathIfMissing]
    appendResult,        \* how the last append ended: "ok" | "ValidationError"
    appendCase,          \* the rule of the append engine the last append took
    appenders,           \* each concurrent appender: [pc, inc, plan, result]
    finished,            \* the appenders that wrote, in the order of their writes
    overlapped,          \* some appender read while another was between read and write
    incs,                \* two incrementals side by side: [header, meta, dataset, data]
    objects,             \* the dataset metadata mappings in memory, by the name that holds them
    pairOp,              \* the last operation on the two: [op, left, right, result]
    disk,                \* the directory writeToArchive writes to: [data, root, dirs]
    handed,              \* the mapping the imageMetadata accessor handed to the caller
    streamer,            \* a bidsStreamer: [cls, type, index]
    volumes,             \* the number of time points of the data the streamer reads
    served               \* the streamer's last get_next_image call and the calls so far

incVars == <<argImage, argImageMetadata, argDatasetMetadata, pc, err,
             missingFields, imgMetadata, datasetMetadata, imageDimensions,
             pixdim4, last, binding>>

archiveVars == <<archive, appendArgs, appendResult, appendCase>>

raceVars == <<appenders, finished, overlapped>>

\* The variables of the later parts of the development
pairVars == <<incs, objects, pairOp, disk>>

streamVars == <<streamer, volumes, served>>

sideVars == <<raceVars, pairVars, handed, streamVars>>

vars == <<incVars, archiveVars, sideVars>>

---------------------------------------------------------------------------
(* Values held in a metadata mapping.  Python values are tagged with their *)
(* type, so that the string "01" and the integer 1 are different values.   *)
(* NumV(k) is the number k/1000 (times are kept in thousandths, so that    *)
(* the milliseconds-to-seconds rescaling is exact).                        *)

StrV(s) == <<"str", s>>
IntV(n) == <<"int", n>>
NumV(k) == <<"num", k>>
ListV(s) == <<"list", s>>
\* a tuple of the items a list of the same text holds
TupleV(s) == <<"tuple", s>>
NoneVal == <<"none">>

IsNum(v) == Len(v) = 2 /\ v[1] = "num"
IsInt(v) == Len(v) = 2 /\ v[1] = "int"
IsStr(v) == Len(v) = 2 /\ v[1] = "str"
IsList(v) == Len(v) = 2 /\ v[1] = "list"

(* Python dict operations on mappings (functions with a finite domain).    *)
EmptyMap == <<>>
Has(m, k) == k \in DOMAIN m
\* dict.get(k, None)
Get(m, k) == IF k \in DOMAIN m THEN m[k] ELSE NoneVal
\* m[k] = v
Put(m, k, v) == [x \in (DOMAIN m) \cup {k} |-> IF x = k THEN v ELSE m[x]]
\* m.pop(k, None)
Pop(m, k) == [x \in (DOMAIN m) \ {k} |-> m[x]]
\* a.update(b): the entries of b win
Update(a, b) ==
    [x \in (DOMAIN a) \cup (DOMAIN b) |-> IF x \in DOMAIN b THEN b[x] ELSE a[x]]
Restrict(m, ks) == [x \in (DOMAIN m) \cap ks |-> m[x]]

---------------------------------------------------------------------------
(* Class constants                                                         *)

REQUIRED_IMAGE_METADATA ==
    <<"subject", "task", "suffix", "datatype", "RepetitionTime", "EchoTime">>

RequiredSet == {REQUIRED_IMAGE_METADATA[i] : i \in DOMAIN REQUIRED_IMAGE_METADATA}

\* loadBidsEntities(): the names of the BIDS entities (the ones the file
\* name pattern of makeBidsFileName's docstring lists)
ENTITIES ==
    {"subject", "session", "task", "acquisition", "ceagent", "direction",
     "reconstruction", "run", "echo"}

DATASET_DESC_REQ_FIELDS == <<"Name", "BIDSVersion">>

DEFAULT_DATASET_DESC ==
    [f \in {"Name", "BIDSVersion"} |->
        IF f = "Name" THEN StrV("bidsi_dataset") ELSE StrV("1.4.1")]

---------------------------------------------------------------------------
(* Metadata normalisation                                                  *)

ProtocolMatching == StrV("func_ses-01_task-faces_run-01")
ProtocolPlain == StrV("localizer")

\* metadataFromProtocolName: the session, task and run labels embedded in a
\* ProtocolName of the form <prefix>_ses-<session>_task-<task>_run-<run>
metadataFromProtocolName(protocolName) ==
    IF protocolName = ProtocolMatching
    THEN [f \in {"session", "task", "run"} |->
            CASE f = "session" -> StrV("01")
              [] f = "task" -> StrV("faces")
              [] f = "run" -> StrV("01")]
    ELSE EmptyMap

\* The largest value, in thousandths, still read as seconds
RepetitionTimeMax == 100000
EchoTimeMax == 1000

TimeMax(f) == IF f = "RepetitionTime" THEN RepetitionTimeMax ELSE EchoTimeMax

\* adjustTimeUnits: a time given in milliseconds is rescaled to seconds
adjustTimeUnits(m) ==
    [f \in DOMAIN m |->
        IF f \in {"RepetitionTime", "EchoTime"} /\ IsNum(m[f]) /\ m[f][2] > TimeMax(f)
        THEN NumV(m[f][2] \div 1000)
        ELSE m[f]]

\* list(np.linspace(0.0, 1.5, 27)): the placeholder slice timing
SliceTimingPlaceholder == ListV("linspace(0.0, 1.5, 27)")

\* A variant where the parsed and injected fields overwrite the raw ones
preprocessAndSetMetadata_ParsedWins(imageMetadata) ==
    LET protocolName == Get(imageMetadata, "ProtocolName")
        fromProtocol == metadataFromProtocolName(protocolName)
        withTiming == Put(fromProtocol, "SliceTiming", SliceTimingPlaceholder)
    IN  adjustTimeUnits(Update(imageMetadata, withTiming))

\* A variant that binds self._imgMetadata to the caller's mapping and merges
\* the parsed fields into it
preprocessObjects_OnCaller(imageMetadata) ==
    LET protocolName == Get(imageMetadata, "ProtocolName")
        created == [caller |-> imageMetadata,
                    own |-> metadataFromProtocolName(protocolName)]
        self == "caller"
        timed == [created EXCEPT ![self] = Put(@, "SliceTiming", SliceTimingPlaceholder)]
        updated == [timed EXCEPT ![self] = Update(timed.own, @)]
        adjusted == [updated EXCEPT ![self] = adjustTimeUnits(@)]
    IN  [objects |-> adjusted, self |-> self]

\* _preprocessAndSetMetadata on the mapping objects in memory: "caller" is the
\* mapping the caller passed, "own" the one metadataFromProtocolName builds
\* from the ProtocolName string; self names the object self._imgMetadata is
\* bound to, and every later statement writes to that object
preprocessObjects(imageMetadata) ==
    LET protocolName == Get(imageMetadata, "ProtocolName")
        created == [caller |-> imageMetadata,
                    own |-> metadataFromProtocolName(protocolName)]
        self == "own"
        timed == [created EXCEPT ![self] = Put(@, "SliceTiming", SliceTimingPlaceholder)]
        updated == [timed EXCEPT ![self] = Update(@, timed.caller)]
        adjusted == [updated EXCEPT ![self] = adjustTimeUnits(@)]
    IN  [objects |-> adjusted, self |-> self]

\* self._imgMetadata after _preprocessAndSetMetadata
preprocessAndSetMetadata(imageMetadata) ==
    LET r == preprocessObjects(imageMetadata)
    IN  r.objects[r.self]

\* A variant that reports only the first missing field
missingImageMetadata_FirstOnly(imageMeta) ==
    LET all == SelectSeq(REQUIRED_IMAGE_METADATA, LAMBDA f : f \notin DOMAIN imageMeta)
    IN  IF all = <<>> THEN <<>> ELSE <<Head(all)>>

missingImageMetadata(imageMeta) ==
    SelectSeq(REQUIRED_IMAGE_METADATA, LAMBDA f : f \notin DOMAIN imageMeta)

\* int(x): defined on integers and on strings of digits
IntDefined(v) == IsInt(v) \/ v = StrV("01") \/ v = StrV("1")
IntOf(v) == IF IsInt(v) THEN v ELSE IntV(1)

\* _postprocessMetadata raises ValueError when int(run) does
postprocessRaises(m) ==
    Get(m, "run") # NoneVal /\ ~IntDefined(Get(m, "run"))

postprocessMetadata(m) ==
    LET coerced == IF Get(m, "run") # NoneVal
                   THEN Put(m, "run", IntOf(m["run"]))
                   ELSE m
    IN  Put(coerced, "TaskName", coerced["task"])

---------------------------------------------------------------------------
(* Image handling                                                          *)

IsNifti(image) == image.kind \in {"Nifti1Image", "Nifti2Image"}

\* nib.funcs.squeeze_image: an image of fewer than 4 axes is returned as it
\* is; otherwise the axes of length 1 at the END of the shape, beyond the
\* third axis, are dropped
RECURSIVE squeezedLen(_, _)
squeezedLen(shape, slen) ==
    IF slen > 3 /\ shape[slen] = 1 THEN squeezedLen(shape, slen - 1) ELSE slen

squeeze_image(shape) ==
    IF Len(shape) < 4 THEN shape ELSE SubSeq(shape, 1, squeezedLen(shape, Len(shape)))

\* np.expand_dims(data, -1)
expand_dims(shape) == Append(shape, 1)


\* A variant that stops at the first missing dataset field
datasetMissingFields_FirstOnly(dsMeta) ==
    LET all == SelectSeq(DATASET_DESC_REQ_FIELDS, LAMBDA f : Get(dsMeta, f) = NoneVal)
    IN  IF all = <<>> THEN <<>> ELSE <<Head(all)>>

\* The dataset description fields a supplied datasetMetadata lacks
datasetMissingFields(dsMeta) ==
    SelectSeq(DATASET_DESC_REQ_FIELDS, LAMBDA f : Get(dsMeta, f) = NoneVal)

NoResult ==
    [err |-> "none", missing |-> <<>>, imgMetadata |-> EmptyMap,
     datasetMetadata |-> EmptyMap, dims |-> <<>>, pixdim4 |-> NoneVal]

Raise(e, fields) == [NoResult EXCEPT !.err = e, !.missing = fields]


\* A variant that leaves pixdim[4] of a promoted image as it was
storeImage_KeepPixdim(image, meta, sofar) ==
    LET squeezed == squeeze_image(image.shape)
    IN  IF Len(squeezed) < 3 THEN Raise("ValueError", <<>>)
        ELSE LET dims == IF Len(squeezed) = 3 THEN expand_dims(squeezed) ELSE squeezed
             IN  IF Len(dims) # 4 THEN Raise("AssertionError", <<>>)
                 ELSE [sofar EXCEPT !.dims = dims, !.pixdim4 = image.pixdim4]

\* The image part of __init__: squeeze, validate the rank, promote 3-D to 4-D
storeImage(image, meta, sofar) ==
    LET squeezed == squeeze_image(image.shape)
    IN  IF Len(squeezed) < 3 THEN Raise("ValueError", <<>>)
        ELSE LET dims == IF Len(squeezed) = 3 THEN expand_dims(squeezed) ELSE squeezed
                 pix == IF Len(squeezed) = 3 THEN Get(meta, "RepetitionTime")
                        ELSE image.pixdim4
             IN  IF Len(dims) # 4 THEN Raise("AssertionError", <<>>)
                 ELSE [sofar EXCEPT !.dims = dims, !.pixdim4 = pix]

\* BidsIncremental.__init__(image, imageMetadata, datasetMetadata)
BidsIncrementalInit(image, imageMetadata, dsArg) ==
    IF ~IsNifti(image) THEN Raise("TypeError", <<>>)
    ELSE IF dsArg.given /\ datasetMissingFields(dsArg.map) # <<>>
    THEN Raise("MissingMetadataError", datasetMissingFields(dsArg.map))
    ELSE LET pre == preprocessAndSetMetadata(imageMetadata)
         IN  IF missingImageMetadata(pre) # <<>>
             THEN Raise("MissingMetadataError", missingImageMetadata(pre))
             ELSE IF postprocessRaises(pre) THEN Raise("ValueError", <<>>)
             ELSE LET meta == postprocessMetadata(pre)
                      ds == IF dsArg.given THEN dsArg.map ELSE DEFAULT_DATASET_DESC
                  IN  storeImage(image, meta,
                                 [NoResult EXCEPT !.imgMetadata = meta,
                                                  !.datasetMetadata = ds])

\* No incremental, so no mapping is bound
NotBound == [object |-> "none", shared |-> {}]

\* The caller's mapping as __init__ leaves it: untouched when __init__ raises
\* before line 82; otherwise the "caller" object after
\* _preprocessAndSetMetadata and, were self._imgMetadata that object, after
\* _postprocessMetadata too
callerMetadataAfterInit(image, imageMetadata, dsArg) ==
    IF ~IsNifti(image) \/ (dsArg.given /\ datasetMissingFields(dsArg.map) # <<>>)
    THEN imageMetadata
    ELSE LET p == preprocessObjects(imageMetadata)
             pre == p.objects[p.self]
         IN  IF p.self # "caller" THEN p.objects.caller
             ELSE IF missingImageMetadata(pre) # <<>> \/ postprocessRaises(pre)
             THEN pre
             ELSE postprocessMetadata(pre)

\* The keys under which two mappings hold one and the same list object:
\* update() copies references, so a raw list value that no later statement
\* replaced is the list the caller's mapping holds
sharedLists(callerMetadata, meta) ==
    {k \in (DOMAIN callerMetadata) \cap (DOMAIN meta) :
        IsList(callerMetadata[k]) /\ meta[k] = callerMetadata[k]}

\* What self._imgMetadata is bound to once __init__ has returned
bindingAfterInit(imageMetadata, meta) ==
    [object |-> preprocessObjects(imageMetadata).self,
     shared |-> sharedLists(imageMetadata, meta)]

---------------------------------------------------------------------------
(* Metadata field operations.  Each returns the exception raised ("none"   *)
(* when it returns), the value returned and the metadata it leaves.        *)


\* A variant that accepts every name
exceptIfNotBids_Never(entityName) == FALSE

\* _exceptIfNotBids raises ValueError for a name that is no BIDS entity
exceptIfNotBids(entityName) == entityName \notin ENTITIES

OpResult(e, ret, meta) == [err |-> e, ret |-> ret, meta |-> meta]

getMetadataField(meta, field, strict) ==
    IF strict /\ exceptIfNotBids(field) THEN OpResult("ValueError", NoneVal, meta)
    ELSE OpResult("none", Get(meta, field), meta)

setMetadataField(meta, field, value, strict) ==
    IF strict /\ exceptIfNotBids(field) THEN OpResult("ValueError", NoneVal, meta)
    ELSE IF field # "" THEN OpResult("none", NoneVal, Put(meta, field, value))
    ELSE OpResult("ValueError", NoneVal, meta)


\* A variant without the check for required fields
removeMetadataField_NoRequiredCheck(meta, field, strict) ==
    IF strict /\ exceptIfNotBids(field) THEN OpResult("ValueError", NoneVal, meta)
    ELSE OpResult("none", NoneVal, Pop(meta, field))

removeMetadataField(meta, field, strict) ==
    IF field \in RequiredSet THEN OpResult("ValueError", NoneVal, meta)
    ELSE IF strict /\ exceptIfNotBids(field) THEN OpResult("ValueError", NoneVal, meta)
    ELSE OpResult("none", NoneVal, Pop(meta, field))

---------------------------------------------------------------------------
(* File names and paths.  bids_build_path is build_path of pybids          *)
(* (bids.layout.writing): it is handed a mapping object and a pattern, and *)
(* returns the path.  A name or a path is kept as the values the pattern   *)
(* takes from the mapping.                                                 *)

\* str.lstrip('.') on the extensions in use
lstripDot(v) ==
    CASE v = StrV(".nii") -> StrV("nii")
      [] v = StrV(".json") -> StrV("json")
      [] v = StrV(".tsv") -> StrV("tsv")
      [] OTHER -> v

\* makeBidsFileName: the mapping 'entities' it fills for bids_build_path
entitiesFor(meta, extension) ==
    LET present == {k \in ENTITIES : Get(meta, k) # NoneVal}
    IN  [key \in present \cup {"extension", "suffix"} |->
            CASE key = "extension" -> StrV(extension)
              [] key = "suffix" -> IF extension = ".tsv" THEN StrV("events")
                                   ELSE meta["suffix"]
              [] OTHER -> meta[key]]

\* The path BIDS_FILE_PATTERN gives for a mapping
fileNameOf(entities) ==
    [entities |-> Restrict(entities, ENTITIES),
     suffix |-> entities["suffix"],
     extension |-> lstripDot(entities["extension"])[2]]

\* The path BIDS_DIR_PATH_PATTERN gives for a mapping
dirPathOf(entities) ==
    [subject |-> Get(entities, "subject"), session |-> Get(entities, "session"),
     datatype |-> Get(entities, "datatype")]

\* What build_path leaves in the mapping it was handed.  The releases of
\* pybids differ: some only read the mapping, some first normalise it in
\* place (entities['extension'] = entities['extension'].lstrip('.'))
entitiesAfterBuild(entities, normalises) ==
    IF normalises /\ Get(entities, "extension") # NoneVal
    THEN Put(entities, "extension", lstripDot(entities["extension"]))
    ELSE entities

\* bids_build_path(mem[arg], pattern) on the mapping objects in memory:
\* the path returned and the objects afterwards
bids_build_path(mem, arg, pattern, normalises) ==
    LET after == entitiesAfterBuild(mem[arg], normalises)
    IN  [ret |-> IF pattern = "BIDS_FILE_PATTERN" THEN fileNameOf(after)
                 ELSE dirPathOf(after),
         mem |-> [mem EXCEPT ![arg] = after]]

\* makeBidsFileName(extension) on an incremental whose self._imgMetadata is
\* mem.imgMetadata: the mapping handed to bids_build_path is the local
\* 'entities'
makeBidsFileNameCall(mem, extension, normalises) ==
    bids_build_path([mem EXCEPT !.entities = entitiesFor(mem.imgMetadata, extension)],
                    "entities", "BIDS_FILE_PATTERN", normalises)

\* dataDirPath: the mapping handed to bids_build_path is self._imgMetadata
dataDirPathCall(mem, normalises) ==
    bids_build_path(mem, "imgMetadata", "BIDS_DIR_PATH_PATTERN", normalises)

\* The values the methods and properties return on an incremental whose
\* metadata is meta.  The patterns take the entities, the suffix, the
\* datatype and the extension asked for, none of which the normalisation of
\* a stored extension changes, so the value is the same for either
\* outcome of the call; what the call does to the mapping is given by
\* makeBidsFileNameCall and dataDirPathCall
makeBidsFileName(meta, extension) == fileNameOf(entitiesFor(meta, extension))

imageFileName(meta) == makeBidsFileName(meta, ".nii")
metadataFileName(meta) == makeBidsFileName(meta, ".json")
eventsFileName(meta) == makeBidsFileName(meta, ".tsv")

dataDirPath(meta) == dirPathOf(meta)

imageFilePath(meta) == <<dataDirPath(meta), imageFileName(meta)>>
metadataFilePath(meta) == <<dataDirPath(meta), metadataFileName(meta)>>

\* The metadata written to the sidecar: the fields that are no entities
sidecarMetadata(meta) == Restrict(meta, (DOMAIN meta) \ ENTITIES)

---------------------------------------------------------------------------
(* The archive append engine                                               *)

\* An archive: the images by path (their volumes in time order and their
\* header, whose dim0 is the rank), the sidecar metadata by path, and the
\* directories
EmptyArchive == [images |-> EmptyMap, sidecars |-> EmptyMap, dirs |-> {}]

\* The header fields two images must agree on to be merged
HeaderMatchFields == {"qform_code"}

\* In pixdim, 0 and 1 both stand for "unit"
pixdimNormal(p) == IF p = 0 THEN 1000 ELSE p

Min(a, b) == IF a <= b THEN a ELSE b

\* A variant that compares every pixdim entry exactly
headersMatch_Exact(h1, h2) ==
    /\ \A f \in HeaderMatchFields : h1[f] = h2[f]
    /\ h1.pixdim = h2.pixdim

\* pixdim is compared up to the dimensionality both headers declare
headersMatch(h1, h2) ==
    /\ \A f \in HeaderMatchFields : h1[f] = h2[f]
    /\ \A i \in 1..Min(h1.dim0, h2.dim0) :
          pixdimNormal(h1.pixdim[i]) = pixdimNormal(h2.pixdim[i])

\* The metadata fields two acquisitions of one series must agree on, and
\* the fields that must differ between two distinct acquisitions
MetadataMatchFields == {"SeriesDescription"}
MetadataDifferFields == {"AcquisitionTime"}

\* A variant that compares only the fields that must agree
metadataMatches_AgreeOnly(m1, m2) ==
    \A f \in MetadataMatchFields :
        (Has(m1, f) /\ Has(m2, f)) => m1[f] = m2[f]

metadataMatches(m1, m2) ==
    /\ \A f \in MetadataMatchFields :
          (Has(m1, f) /\ Has(m2, f)) => m1[f] = m2[f]
    /\ \A f \in MetadataDifferFields :
          (Has(m1, f) /\ Has(m2, f)) => m1[f] # m2[f]

\* The incremental's image joined to an existing image along the time axis;
\* the merged image carries the existing image's header, its derived
\* fields refreshed
mergedImage(existing, inc) ==
    [vols |-> existing.vols \o inc.vols,
     header |-> [existing.header EXCEPT !.dim0 = 4]]

AppendOutcome(result, case, arch) == [result |-> result, case |-> case, archive |-> arch]

\* A variant that writes the merged image before the metadata is compared
appendIncremental_WriteFirst(arch, inc, createPathIfMissing) ==
    LET imgPath == imageFilePath(inc.meta)
        metaPath == metadataFilePath(inc.meta)
        dir == dataDirPath(inc.meta)
    IN  IF imgPath \in DOMAIN arch.images
        THEN LET existing == arch.images[imgPath]
                 merged == [arch EXCEPT !.images =
                              Put(arch.images, imgPath, mergedImage(existing, inc))]
             IN  IF ~headersMatch(inc.header, existing.header)
                 THEN AppendOutcome("ValidationError", "header mismatch", arch)
                 ELSE IF ~metadataMatches(inc.meta, Get(arch.sidecars, metaPath))
                 THEN AppendOutcome("ValidationError", "metadata mismatch", merged)
                 ELSE AppendOutcome("ok", "merged", merged)
        ELSE IF dir \in arch.dirs \/ createPathIfMissing
        THEN AppendOutcome("ok", "created",
                [images |-> Put(arch.images, imgPath,
                                [vols |-> inc.vols, header |-> inc.header]),
                 sidecars |-> Put(arch.sidecars, metaPath, sidecarMetadata(inc.meta)),
                 dirs |-> arch.dirs \cup {dir}])
        ELSE AppendOutcome("ValidationError", "no path", arch)

\* A variant that puts the new volume in front of the existing ones
appendIncremental_Prepend(arch, inc, createPathIfMissing) ==
    LET imgPath == imageFilePath(inc.meta)
        metaPath == metadataFilePath(inc.meta)
        dir == dataDirPath(inc.meta)
    IN  IF imgPath \in DOMAIN arch.images
        THEN LET existing == arch.images[imgPath]
             IN  IF ~headersMatch(inc.header, existing.header)
                 THEN AppendOutcome("ValidationError", "header mismatch", arch)
                 ELSE IF ~metadataMatches(inc.meta, Get(arch.sidecars, metaPath))
                 THEN AppendOutcome("ValidationError", "metadata mismatch", arch)
                 ELSE AppendOutcome("ok", "merged",
                        [arch EXCEPT !.images =
                           Put(arch.images, imgPath,
                               [vols |-> inc.vols \o existing.vols,
                                header |-> [existing.header EXCEPT !.dim0 = 4]])])
        ELSE IF dir \in arch.dirs \/ createPathIfMissing
        THEN AppendOutcome("ok", "created",
                [images |-> Put(arch.images, imgPath,
                                [vols |-> inc.vols, header |-> inc.header]),
                 sidecars |-> Put(arch.sidecars, metaPath, sidecarMetadata(inc.meta)),
                 dirs |-> arch.dirs \cup {dir}])
        ELSE AppendOutcome("ValidationError", "no path", arch)

\* append(incremental, archive, createPathIfMissing)
appendIncremental(arch, inc, createPathIfMissing) ==
    LET imgPath == imageFilePath(inc.meta)
        metaPath == metadataFilePath(inc.meta)
        dir == dataDirPath(inc.meta)
    IN  IF imgPath \in DOMAIN arch.images
        THEN \* the image exists: check, then merge along the time axis
             LET existing == arch.images[imgPath]
             IN  IF ~headersMatch(inc.header, existing.header)
                 THEN AppendOutcome("ValidationError", "header mismatch", arch)
                 ELSE IF ~metadataMatches(inc.meta, Get(arch.sidecars, metaPath))
                 THEN AppendOutcome("ValidationError", "metadata mismatch", arch)
                 ELSE AppendOutcome("ok", "merged",
                        [arch EXCEPT !.images =
                           Put(arch.images, imgPath, mergedImage(existing, inc))])
        ELSE IF dir \in arch.dirs \/ createPathIfMissing
        THEN \* a new image, with its sidecar, at the computed path
             AppendOutcome("ok", "created",
                [images |-> Put(arch.images, imgPath,
                                [vols |-> inc.vols, header |-> inc.header]),
                 sidecars |-> Put(arch.sidecars, metaPath, sidecarMetadata(inc.meta)),
                 dirs |-> arch.dirs \cup {dir}])
        ELSE AppendOutcome("ValidationError", "no path", arch)

---------------------------------------------------------------------------
(* Inputs                                                                  *)

\* The longest image shape tried
MaxRank == 5

AxisLengths == {1, 2}
Shapes == UNION {[1..n -> AxisLengths] : n \in 1..MaxRank}

\* pixdim[4] of a header nibabel builds afresh is 1.0
DefaultPixdim == NumV(1000)

Image(kind, shape) == [kind |-> kind, shape |-> shape, pixdim4 |-> DefaultPixdim]

Images ==
    {Image("None", <<>>), Image("Other", <<2, 2, 2>>)}
    \cup {Image(k, s) : k \in {"Nifti1Image", "Nifti2Image"}, s \in Shapes}

SampleImages ==
    {Image("None", <<>>), Image("Nifti1Image", <<2, 2, 2>>),
     Image("Nifti2Image", <<2, 2, 2, 2>>), Image("Nifti1Image", <<2, 2>>),
     Image("Nifti1Image", <<2, 2, 2, 2, 2>>)}

\* The values the caller's mappings give a field
RawValues(f) ==
    CASE f = "subject" -> {StrV("01")}
      [] f = "task" -> {StrV("story")}
      [] f = "suffix" -> {StrV("bold")}
      [] f = "datatype" -> {StrV("func")}
      [] f = "RepetitionTime" -> {NumV(1500), NumV(1500000)}
      [] f = "EchoTime" -> {NumV(30000)}
      [] f = "ProtocolName" -> {ProtocolMatching, ProtocolPlain}
      [] f = "run" -> {IntV(1), IntV(2), StrV("01"), StrV("A")}
      [] f = "session" -> {StrV("02")}
      [] f = "SliceTiming" -> {ListV("[0.0, 0.75]")}
      [] f = "TaskName" -> {StrV("other")}
      [] f = "AcquisitionTime" -> {StrV("12:47:58")}
      [] f = "Name" -> {StrV("dicom test"), NoneVal}
      [] f = "BIDSVersion" -> {StrV("1.0.0")}

RawFields == REQUIRED_IMAGE_METADATA \o <<"ProtocolName", "run">>

\* Every mapping that gives some of the fields one of their values
RECURSIVE MapsOver(_)
MapsOver(fields) ==
    IF fields = <<>> THEN {EmptyMap}
    ELSE LET rest == MapsOver(Tail(fields))
         IN  rest \cup {Put(m, Head(fields), v) : m \in rest, v \in RawValues(Head(fields))}

RawMetadatas == MapsOver(RawFields)

CompleteMetadata ==
    [f \in RequiredSet |->
        CASE f = "subject" -> StrV("01")
          [] f = "task" -> StrV("story")
          [] f = "suffix" -> StrV("bold")
          [] f = "datatype" -> StrV("func")
          [] f = "RepetitionTime" -> NumV(1500000)
          [] f = "EchoTime" -> NumV(30000)]

SampleMetadatas ==
    {CompleteMetadata,
     Put(Put(CompleteMetadata, "run", StrV("01")), "TaskName", StrV("other")),
     Put(Pop(CompleteMetadata, "task"), "ProtocolName", ProtocolMatching),
     Put(Put(CompleteMetadata, "ProtocolName", ProtocolMatching),
         "AcquisitionTime", StrV("12:47:58")),
     Pop(Pop(CompleteMetadata, "subject"), "EchoTime"),
     Put(Put(CompleteMetadata, "SliceTiming", ListV("[0.0, 0.75]")),
         "extension", StrV(".nii"))}

\* Complete mappings with a matching ProtocolName that give, or do not give,
\* the fields _preprocessAndSetMetadata fills in before it applies them
PrecedenceMetadatas ==
    {Update(Put(CompleteMetadata, "ProtocolName", ProtocolMatching), m) :
        m \in MapsOver(<<"session", "run", "SliceTiming">>)}

Omitted == [given |-> FALSE, map |-> EmptyMap]
Given(m) == [given |-> TRUE, map |-> m]

DatasetMetadatas ==
    {Omitted} \cup {Given(m) : m \in MapsOver(DATASET_DESC_REQ_FIELDS)}

CompleteDataset ==
    [f \in {"Name", "BIDSVersion"} |->
        IF f = "Name" THEN StrV("dicom test") ELSE StrV("1.0.0")]

SampleDatasets ==
    {Omitted, Given(CompleteDataset), Given(Pop(CompleteDataset, "Name"))}

\* The inputs of the construction: each argument ranges over all its values
\* while the other two range over a sample that holds valid and invalid ones
Inputs ==
    (Images \X SampleMetadatas \X SampleDatasets)
    \cup (SampleImages \X RawMetadatas \X SampleDatasets)
    \cup (SampleImages \X PrecedenceMetadatas \X SampleDatasets)
    \cup (SampleImages \X SampleMetadatas \X DatasetMetadatas)

---------------------------------------------------------------------------
(* The construction of one incremental                                     *)

NoOp == [op |-> "none", field |-> "", strict |-> FALSE, value |-> NoneVal,
         err |-> "none", ret |-> NoneVal, before |-> EmptyMap]

\* The concurrent appenders, none of which has begun
Procs == {1, 2}
Idle == [pc |-> "idle", inc |-> NoneVal, plan |-> NoneVal, result |-> "none"]

\* The accessor not yet read.  Once read: the mapping the caller holds, the
\* keys whose value is an object that the caller's mapping and the
\* incremental's both refer to, and the incremental's metadata as it was
NotHanded == [taken |-> FALSE, map |-> EmptyMap, aliases |-> {}, original |-> EmptyMap]

\* An empty directory: the files under the data directories by path, the
\* files at the root by name, and the directories
EmptyDisk == [data |-> EmptyMap, root |-> EmptyMap, dirs |-> {}]

\* No operation on the incrementals held side by side yet
NoPairOp == [op |-> "none", left |-> "", right |-> "", result |-> FALSE]

\* No append made yet
NoAppend == [inc |-> NoneVal, createPathIfMissing |-> FALSE]

\* The arguments of a construction not yet made
InitIncremental(inputs) ==
    /\ \E i \in inputs :
        /\ argImage = i[1]
        /\ argImageMetadata = i[2]
        /\ argDatasetMetadata = i[3]
    /\ pc = "new"
    /\ err = "none"
    /\ missingFields = <<>>
    /\ imgMetadata = EmptyMap
    /\ datasetMetadata = EmptyMap
    /\ imageDimensions = <<>>
    /\ pixdim4 = NoneVal
    /\ last = NoOp
    /\ binding = NotBound

InitAppends(archives) ==
    /\ archive \in archives
    /\ appendArgs = NoAppend
    /\ appendResult = "none"
    /\ appendCase = "none"
    /\ appenders = [p \in Procs |-> Idle]
    /\ finished = <<>>
    /\ overlapped = FALSE

NoPair ==
    /\ incs = EmptyMap
    /\ objects = EmptyMap
    /\ pairOp = NoPairOp
    /\ disk = EmptyDisk

\* No streamer in use
NotServed(sliceIndex) ==
    [calls |-> 0, definedIndex |-> 0, err |-> "none", ret |-> NoneVal,
     queried |-> <<>>, faulted |-> FALSE, origin |-> sliceIndex, since |-> 0]

NoStream ==
    /\ streamer = [cls |-> "none", type |-> "none", index |-> -1]
    /\ volumes = 0
    /\ served = NotServed(-1)

InitWith(inputs, archives) ==
    /\ InitIncremental(inputs) /\ InitAppends(archives) /\ NoPair /\ handed = NotHanded
    /\ NoStream

Init == InitWith(Inputs, {EmptyArchive})

Construct ==
    /\ pc = "new"
    /\ LET r == BidsIncrementalInit(argImage, argImageMetadata, argDatasetMetadata)
       IN  /\ pc' = IF r.err = "none" THEN "constructed" ELSE "failed"
           /\ err' = r.err
           /\ missingFields' = r.missing
           /\ imgMetadata' = r.imgMetadata
           /\ datasetMetadata' = r.datasetMetadata
           /\ imageDimensions' = r.dims
           /\ pixdim4' = r.pixdim4
           /\ binding' = IF r.err = "none"
                         THEN bindingAfterInit(argImageMetadata, r.imgMetadata)
                         ELSE NotBound
    /\ argImageMetadata' = callerMetadataAfterInit(argImage, argImageMetadata,
                                                   argDatasetMetadata)
    /\ UNCHANGED <<argImage, argDatasetMetadata, last>>
    /\ UNCHANGED <<archiveVars, sideVars>>

Next == Construct

Spec == Init /\ [][Next]_vars

---------------------------------------------------------------------------
(* An incremental in use: constructed from a sample of the inputs, then    *)
(* read and changed through its field operations.                          *)

\* The field names the operations are called with: a required entity, an
\* optional entity, a required field that is no entity, a field that is
\* neither, and the empty name
OpFields == {"task", "run", "RepetitionTime", "AcquisitionTime", ""}
OpValues == {StrV("x"), NoneVal}

Done(op, field, strict, value, r) ==
    /\ last' = [op |-> op, field |-> field, strict |-> strict, value |-> value,
                err |-> r.err, ret |-> r.ret, before |-> imgMetadata]
    /\ imgMetadata' = r.meta
    \* the statements of the operation write to the object self._imgMetadata is
    /\ argImageMetadata' = IF binding.object = "caller" THEN r.meta
                           ELSE argImageMetadata
    \* a key assigned or removed no longer holds the caller's list
    /\ binding' = [binding EXCEPT !.shared =
                      {k \in @ : k \in DOMAIN r.meta /\ r.meta[k] = imgMetadata[k]}]
    /\ UNCHANGED <<argImage, argDatasetMetadata, pc, err,
                   missingFields, datasetMetadata, imageDimensions, pixdim4>>
    /\ UNCHANGED <<archiveVars, sideVars>>

GetField ==
    /\ pc = "constructed"
    /\ \E field \in OpFields, strict \in BOOLEAN :
          Done("get", field, strict, NoneVal,
               getMetadataField(imgMetadata, field, strict))

SetField ==
    /\ pc = "constructed"
    /\ \E field \in OpFields, value \in OpValues, strict \in BOOLEAN :
          Done("set", field, strict, value,
               setMetadataField(imgMetadata, field, value, strict))

RemoveField ==
    /\ pc = "constructed"
    /\ \E field \in OpFields, strict \in BOOLEAN :
          Done("remove", field, strict, NoneVal,
               removeMetadataField(imgMetadata, field, strict))

\* The name and path properties of an incremental
Derivations ==
    {"imageFileName", "metadataFileName", "eventsFileName", "dataDirPath",
     "imageFilePath", "metadataFilePath"}

\* Reading one of the properties on an incremental whose metadata is meta:
\* the value returned and the metadata the call leaves, the mapping objects
\* being self._imgMetadata and the local 'entities' of makeBidsFileName
derivePath(meta, name, normalises) ==
    LET mem == [imgMetadata |-> meta, entities |-> EmptyMap]
        extension == CASE name \in {"imageFileName", "imageFilePath"} -> ".nii"
                       [] name \in {"metadataFileName", "metadataFilePath"} -> ".json"
                       [] OTHER -> ".tsv"
        dir == dataDirPathCall(mem, normalises)
        file == makeBidsFileNameCall(mem, extension, normalises)
        fileAfterDir == makeBidsFileNameCall(dir.mem, extension, normalises)
    IN  CASE name = "dataDirPath" ->
                OpResult("none", dir.ret, dir.mem.imgMetadata)
          [] name \in {"imageFilePath", "metadataFilePath"} ->
                \* os.path.join(self.dataDirPath, self.<...>FileName)
                OpResult("none", <<dir.ret, fileAfterDir.ret>>,
                         fileAfterDir.mem.imgMetadata)
          [] OTHER ->
                OpResult("none", file.ret, file.mem.imgMetadata)

DerivePath ==
    /\ pc = "constructed"
    /\ \E name \in Derivations, normalises \in BOOLEAN :
          Done("derive", name, FALSE, NoneVal,
               derivePath(imgMetadata, name, normalises))

InitOps == InitWith(SampleImages \X SampleMetadatas \X SampleDatasets, {EmptyArchive})

NextOps == Construct \/ GetField \/ SetField \/ RemoveField \/ DerivePath

OpsSpec == InitOps /\ [][NextOps]_vars

---------------------------------------------------------------------------
(* An archive in use: incrementals of one subject are appended to it.      *)

\* The most volumes an image of the archive grows to
MaxVolumes == 3

AppendRaw(run, acquisitionTime, seriesDescription) ==
    LET base == Put(Put(CompleteMetadata, "run", run),
                    "AcquisitionTime", acquisitionTime)
    IN  IF seriesDescription = NoneVal THEN base
        ELSE Put(base, "SeriesDescription", seriesDescription)

AcquisitionTimes == {StrV("12:48:00"), StrV("12:48:02")}

\* The data of the volume acquired at a time
VolumeAt(t) == IF t = StrV("12:48:00") THEN "a" ELSE "b"

\* vox_offset of the header of an image in one file: the voxels follow the
\* 348 bytes of the header and the 4 of the extension flag
single_vox_offset == 352

\* vox_offset of the header nib.Nifti1Image(data, affine) makes: not set
unset_vox_offset == 0

\* The header of an image read from a NIfTI file: the dimensionality dim[0],
\* qform_code, pixdim[1..4] in thousandths, and vox_offset
Header(dim0, qform_code, pixdim3, tr) ==
    [dim0 |-> dim0, qform_code |-> qform_code,
     pixdim |-> <<2000, 2000, pixdim3, tr>>,
     vox_offset |-> single_vox_offset]

\* The incremental constructed from a one-volume image with the given
\* header fields and data, and the raw metadata
Incremental(raw, qform_code, pixdim3) ==
    LET r == BidsIncrementalInit(Image("Nifti1Image", <<2, 2, 2>>), raw, Omitted)
    IN  [meta |-> r.imgMetadata,
         dims |-> r.dims,
         header |-> Header(Len(r.dims), qform_code, pixdim3, r.pixdim4[2]),
         vols |-> <<VolumeAt(raw["AcquisitionTime"])>>]

\* Run 1 is appended with every header and metadata variant, run 2 (the
\* second image of the same directory) with the plain ones
AppendIncrementals ==
    {Incremental(AppendRaw(IntV(1), t, sd), h[1], h[2]) :
        t \in AcquisitionTimes, sd \in {NoneVal, StrV("A")},
        h \in {<<0, 1000>>, <<1, 1000>>, <<0, 0>>}}
    \cup {Incremental(AppendRaw(IntV(2), t, NoneVal), 0, 1000) :
            t \in AcquisitionTimes}

\* An archive made by hand around one 3-D image, whose sidecar holds the
\* whole metadata of the image
HandMadeMetadata ==
    Put(Put(adjustTimeUnits(CompleteMetadata), "run", IntV(1)),
        "AcquisitionTime", StrV("12:47:58"))

archiveWithImage(header, vols, metadata) ==
    [images |-> Put(EmptyMap, imageFilePath(metadata),
                    [vols |-> vols, header |-> header]),
     sidecars |-> Put(EmptyMap, metadataFilePath(metadata), metadata),
     dirs |-> {dataDirPath(metadata)}]

\* The archives appended to: an empty one, and two made around a 3-D image,
\* whose pixdim[4] is the repetition time in one and the unit in the other
InitialArchives ==
    {EmptyArchive,
     archiveWithImage(Header(3, 0, 1000, 1500), <<"z">>, HandMadeMetadata),
     archiveWithImage(Header(3, 0, 1000, 1000), <<"z">>, HandMadeMetadata)}

\* One call of the append engine
AppendStep(inc, createPathIfMissing) ==
    \E r \in {appendIncremental(archive, inc, createPathIfMissing)} :
        /\ \A path \in DOMAIN r.archive.images :
              Len(r.archive.images[path].vols) <= MaxVolumes
        /\ archive' = r.archive
        /\ appendArgs' = [inc |-> inc, createPathIfMissing |-> createPathIfMissing]
        /\ appendResult' = r.result
        /\ appendCase' = r.case
        /\ UNCHANGED <<incVars, sideVars>>

AppendIncremental ==
    \E inc \in AppendIncrementals, createPathIfMissing \in BOOLEAN :
        AppendStep(inc, createPathIfMissing)

InitArchive ==
    InitWith({<<Image("Nifti1Image", <<2, 2, 2>>), CompleteMetadata, Omitted>>},
             InitialArchives)

NextArchive == AppendIncremental

ArchiveSpec == InitArchive /\ [][NextArchive]_vars

---------------------------------------------------------------------------
(* Properties of the construction                                          *)

Range(seq) == {seq[i] : i \in DOMAIN seq}
InOrder(fields) == SelectSeq(REQUIRED_IMAGE_METADATA, LAMBDA f : f \in fields)

\* The shape with every axis of length 1 removed
SqueezeAll(shape) == SelectSeq(shape, LAMBDA n : n # 1)

\* The dataset metadata argument is omitted or names every required field
DatasetArgValid ==
    ~argDatasetMetadata.given
    \/ \A i \in DOMAIN DATASET_DESC_REQ_FIELDS :
          Get(argDatasetMetadata.map, DATASET_DESC_REQ_FIELDS[i]) # NoneVal

\* The required fields the raw mapping does not hold
AbsentFromRaw == RequiredSet \ DOMAIN argImageMetadata

\* The fields a matching ProtocolName of the raw mapping supplies
FromProtocolName ==
    IF Get(argImageMetadata, "ProtocolName") = ProtocolMatching
    THEN {"session", "task", "run"} ELSE {}

\* The required fields neither the raw mapping nor its ProtocolName supplies
AbsentAfterParsing == AbsentFromRaw \ FromProtocolName

\* The metadata arguments pass every check made before the image is stored
MetadataArgsValid ==
    /\ DatasetArgValid
    /\ AbsentAfterParsing = {}
    /\ ("run" \in DOMAIN argImageMetadata => argImageMetadata["run"] # StrV("A"))

\* The image argument is a NIfTI image of 3 or 4 axes
ImageArgValid == IsNifti(argImage) /\ Len(argImage.shape) \in {3, 4}

\* C1 as stated: whenever the RAW mapping lacks a required field (image and
\* dataset metadata being acceptable), construction fails with
\* MissingMetadataError and reports exactly the fields absent from it.
C1_Original ==
    (pc # "new" /\ ImageArgValid /\ DatasetArgValid /\ AbsentFromRaw # {})
    => (err = "MissingMetadataError" /\ Range(missingFields) = AbsentFromRaw)

\* C1 amended: whenever a required field is supplied neither by the raw
\* mapping nor by its ProtocolName (image and dataset metadata being
\* acceptable), construction fails with MissingMetadataError and the reported
\* list is exactly those fields, all of them, in the order of
\* REQUIRED_IMAGE_METADATA.
C1_MissingListExact ==
    (pc # "new" /\ IsNifti(argImage) /\ DatasetArgValid /\ AbsentAfterParsing # {})
    => (/\ pc = "failed"
        /\ err = "MissingMetadataError"
        /\ missingFields = InOrder(AbsentAfterParsing))

C1_Witness ==
    /\ pc = "failed"
    /\ err = "MissingMetadataError"
    /\ Get(argImageMetadata, "ProtocolName") = ProtocolMatching
    /\ "task" \notin DOMAIN argImageMetadata
    /\ missingFields = <<"subject", "RepetitionTime">>

\* C2: for a 3-D image, the constructed incremental's image has rank 4, its
\* shape is the 3-D shape with one axis of length 1 added at index 3, and
\* pixdim[4] equals the RepetitionTime of the incremental's metadata.
C2_PromotedTo4D ==
    (pc = "constructed" /\ Len(argImage.shape) = 3)
    => (/\ Len(imageDimensions) = 4
        /\ imageDimensions = argImage.shape \o <<1>>
        /\ pixdim4 = imgMetadata["RepetitionTime"])

C2_Witness ==
    /\ pc = "constructed"
    /\ argImage.shape = <<2, 1, 2>>
    /\ argImageMetadata["RepetitionTime"] = NumV(1500000)
    /\ imageDimensions = <<2, 1, 2, 1>>
    /\ pixdim4 = NumV(1500)

\* C3 as stated: a returned incremental's image has exactly 4 dimensions, and
\* the rank assertion that ends the construction never fails for an image
\* that passed the checks before it (the type check and the rank >= 3 check).
C3_Claim ==
    /\ pc = "constructed" => Len(imageDimensions) = 4
    /\ (pc # "new" /\ IsNifti(argImage) /\ Len(squeeze_image(argImage.shape)) >= 3)
       => err # "AssertionError"

\* C4 as stated: with acceptable metadata, construction fails with TypeError
\* whenever the image is null, is of another type, or is of the right type
\* with more than 4 axes left after the axes of length 1 are squeezed out.
C4_Claim ==
    (/\ pc # "new"
     /\ MetadataArgsValid
     /\ (~IsNifti(argImage) \/ Len(SqueezeAll(argImage.shape)) > 4))
    => (pc = "failed" /\ err = "TypeError")

\* C5: with acceptable metadata, if fewer than 3 axes are left after all the
\* axes of length 1 are squeezed out, construction fails with ValueError and
\* no incremental is returned.
C5_Original ==
    (/\ pc # "new"
     /\ IsNifti(argImage)
     /\ MetadataArgsValid
     /\ Len(SqueezeAll(argImage.shape)) < 3)
    => (pc = "failed" /\ err = "ValueError")

\* C6: a supplied datasetMetadata that lacks required fields makes the
\* construction (of a supported image) fail with MissingMetadataError listing
\* every one of them; with datasetMetadata omitted no dataset field is ever
\* reported missing and the incremental holds the default description.
C6_DatasetMetadata ==
    /\ (/\ pc # "new"
        /\ IsNifti(argImage)
        /\ argDatasetMetadata.given
        /\ ~DatasetArgValid)
       => (/\ pc = "failed"
           /\ err = "MissingMetadataError"
           /\ Range(missingFields) =
                {f \in Range(DATASET_DESC_REQ_FIELDS) :
                    Get(argDatasetMetadata.map, f) = NoneVal})
    /\ (pc # "new" /\ ~argDatasetMetadata.given)
       => (/\ Range(missingFields) \cap Range(DATASET_DESC_REQ_FIELDS) = {}
           /\ pc = "constructed" => datasetMetadata = DEFAULT_DATASET_DESC)

C6_Witness ==
    /\ pc = "failed"
    /\ err = "MissingMetadataError"
    /\ argDatasetMetadata.given
    /\ DOMAIN argDatasetMetadata.map = {}
    /\ missingFields = <<"Name", "BIDSVersion">>

---------------------------------------------------------------------------
(* Properties of the field operations                                      *)

Acted == pc = "constructed" /\ last.op # "none"

\* C7: a constructed incremental holds all six required fields whatever
\* setMetadataField and removeMetadataField calls were made; removing a
\* required field fails with ValueError, strict or not, and changes nothing.
C7_RequiredKept ==
    /\ pc = "constructed" => RequiredSet \subseteq DOMAIN imgMetadata
    /\ (Acted /\ last.op = "remove" /\ last.field \in RequiredSet)
       => (last.err = "ValueError" /\ imgMetadata = last.before)

C7_Witness ==
    /\ Acted
    /\ last.op = "remove"
    /\ last.field = "RepetitionTime"
    /\ ~last.strict
    /\ last.err = "ValueError"
    /\ "run" \notin DOMAIN imgMetadata

\* strict calls with a name that is no entity fail and change nothing
StrictRejects ==
    (Acted /\ last.strict /\ last.field \notin ENTITIES)
    => (last.err = "ValueError" /\ imgMetadata = last.before)

\* C8 as stated: strict calls with a name that is no BIDS entity fail with
\* ValueError and leave the metadata unchanged; calls that are not strict
\* succeed for ANY field name that is not required.
C8_Original ==
    /\ StrictRejects
    /\ (Acted /\ ~last.strict /\ last.field \notin RequiredSet)
       => last.err = "none"

\* C8 amended: strict calls with a name that is no BIDS entity fail with
\* ValueError and leave the metadata unchanged; calls that are not strict
\* succeed for any NON-EMPTY field name that is not required, while
\* setMetadataField with an empty name fails with ValueError, strict or not,
\* and leaves the metadata unchanged.
C8_StrictFlag ==
    /\ StrictRejects
    /\ (Acted /\ ~last.strict /\ last.field \notin RequiredSet /\ last.field # "")
       => last.err = "none"
    /\ (Acted /\ last.op = "set" /\ last.field = "")
       => (last.err = "ValueError" /\ imgMetadata = last.before)

C8_Witness ==
    /\ Acted
    /\ last.op = "set"
    /\ last.strict
    /\ last.field = "AcquisitionTime"
    /\ last.err = "ValueError"
    /\ "AcquisitionTime" \notin DOMAIN imgMetadata

---------------------------------------------------------------------------
(* Properties of the archive append engine                                 *)

\* The incremental equals what the archive holds at its path, but for an
\* AcquisitionTime that both have and that differs
SameButAcquisitionTime(inc, arch) ==
    LET mine == sidecarMetadata(inc.meta)
        held == arch.sidecars[metadataFilePath(inc.meta)]
    IN  /\ inc.header = arch.images[imageFilePath(inc.meta)].header
        /\ DOMAIN mine = DOMAIN held
        /\ "AcquisitionTime" \in DOMAIN mine
        /\ \A f \in DOMAIN mine : (f = "AcquisitionTime") = (mine[f] # held[f])

\* An append that merges puts the incremental's volume after the volumes held
MergesInOrder(inc) ==
    LET path == imageFilePath(inc.meta)
    IN  /\ appendResult' = "ok"
        /\ DOMAIN archive'.images = DOMAIN archive.images
        /\ archive'.images[path].vols = archive.images[path].vols \o inc.vols
        /\ Len(archive'.images[path].vols) = Len(archive.images[path].vols) + 1
        /\ \A other \in DOMAIN archive.images \ {path} :
              archive'.images[other] = archive.images[other]

\* An append that creates writes the incremental's image and its sidecar
CreatesImage(inc) ==
    LET path == imageFilePath(inc.meta)
    IN  /\ appendResult' = "ok"
        /\ path \in DOMAIN archive'.images
        /\ archive'.images[path].vols = inc.vols
        /\ archive'.images[path].header = inc.header
        /\ metadataFilePath(inc.meta) \in DOMAIN archive'.sidecars

\* C9 as stated: an append to an empty archive (whatever createPathIfMissing
\* is) creates the image with its sidecar, holding the incremental's data;
\* every further append to that path of an incremental identical but for a
\* differing AcquisitionTime is merged, the image growing by one volume, in
\* append order.
C9_Original ==
    [][LET inc == appendArgs'.inc
       IN  /\ archive = EmptyArchive => CreatesImage(inc)
           /\ (imageFilePath(inc.meta) \in DOMAIN archive.images
               /\ SameButAcquisitionTime(inc, archive)) => MergesInOrder(inc)]_vars

\* C9 amended: an append to an empty archive WITH createPathIfMissing = true
\* creates the image with its sidecar, holding the incremental's data; every
\* further append to that path of an incremental identical but for a
\* differing AcquisitionTime is merged, the image growing by one volume, and
\* every append that merges keeps the volumes in append order.
C9_AppendGrows ==
    [][LET inc == appendArgs'.inc
           create == appendArgs'.createPathIfMissing
       IN  /\ (archive = EmptyArchive /\ create) => CreatesImage(inc)
           /\ (imageFilePath(inc.meta) \in DOMAIN archive.images
               /\ SameButAcquisitionTime(inc, archive)) => MergesInOrder(inc)
           /\ (imageFilePath(inc.meta) \in DOMAIN archive.images
               /\ appendResult' = "ok") => MergesInOrder(inc)]_vars

C9_Witness ==
    /\ appendResult = "ok"
    /\ appendCase = "merged"
    /\ appendArgs.inc.vols = <<"a">>
    /\ appendArgs.inc.meta["run"] = IntV(1)
    /\ SameButAcquisitionTime(appendArgs.inc, archive)
    /\ \E path \in DOMAIN archive.images :
          /\ archive.images[path].vols = <<"b", "a">>
          /\ archive.images[path].header.dim0 = 4
          /\ path = imageFilePath(appendArgs.inc.meta)

\* C10: an append that fails leaves the archive as it was; an append fails
\* (a) when neither the image path nor its directory exists and
\* createPathIfMissing is false, and (b) when the image exists and
\* headersMatch or metadataMatches is false.
C10_FailedAppendNoChange ==
    [][LET inc == appendArgs'.inc
           create == appendArgs'.createPathIfMissing
           path == imageFilePath(inc.meta)
           exists == path \in DOMAIN archive.images
       IN  /\ appendResult' = "ValidationError" => archive' = archive
           /\ (~exists /\ dataDirPath(inc.meta) \notin archive.dirs /\ ~create)
              => (appendResult' = "ValidationError" /\ archive' = archive)
           /\ (exists
               /\ (\/ ~headersMatch(inc.header, archive.images[path].header)
                   \/ ~metadataMatches(inc.meta,
                          archive.sidecars[metadataFilePath(inc.meta)])))
              => (appendResult' = "ValidationError" /\ archive' = archive)]_vars

C10_Witness ==
    /\ appendResult = "ValidationError"
    /\ appendCase = "metadata mismatch"
    /\ ~appendArgs.createPathIfMissing
    /\ \E path \in DOMAIN archive.images :
          /\ archive.images[path].vols = <<"a", "b">>
          /\ path = imageFilePath(appendArgs.inc.meta)

---------------------------------------------------------------------------
(* Concurrent appends: the engine reads the archive, then writes, with no  *)
(* lock between the two; two appenders run it against one archive.         *)

\* The incrementals the appenders append: those of run 1, which share one
\* image path
RaceIncrementals == {inc \in AppendIncrementals : inc.meta["run"] = IntV(1)}

\* A variant of the write that leaves the files as it finds them
appendWrite_KeepCurrent(current, outcome, inc) == current

\* The write of an append: the files of the outcome computed from what was
\* read are written over whatever the archive holds by then
appendWrite(current, outcome, inc) ==
    LET imgPath == imageFilePath(inc.meta)
        metaPath == metadataFilePath(inc.meta)
        image == outcome.archive.images[imgPath]
    IN  IF outcome.case = "created"
        THEN [images |-> Put(current.images, imgPath, image),
              sidecars |-> Put(current.sidecars, metaPath,
                               outcome.archive.sidecars[metaPath]),
              dirs |-> current.dirs \cup {dataDirPath(inc.meta)}]
        ELSE [current EXCEPT !.images = Put(current.images, imgPath, image)]

\* An appender reads the archive and checks its incremental against it; a
\* failed check ends the append
BeginAppend(p) ==
    /\ appenders[p].pc = "idle"
    /\ \E inc \in RaceIncrementals, createPathIfMissing \in BOOLEAN :
         \E r \in {appendIncremental(archive, inc, createPathIfMissing)} :
            appenders' = [appenders EXCEPT ![p] =
                IF r.result = "ok"
                THEN [pc |-> "read", inc |-> inc, plan |-> r, result |-> "none"]
                ELSE [pc |-> "done", inc |-> inc, plan |-> r, result |-> r.result]]
    /\ overlapped' = (overlapped \/ \E q \in Procs \ {p} : appenders[q].pc = "read")
    /\ UNCHANGED <<incVars, archiveVars, finished, pairVars, handed, streamVars>>

\* The appender writes what it computed from what it read
FinishAppend(p) ==
    /\ appenders[p].pc = "read"
    /\ archive' = appendWrite(archive, appenders[p].plan, appenders[p].inc)
    /\ appenders' = [appenders EXCEPT ![p].pc = "done", ![p].result = "ok"]
    /\ finished' = Append(finished, p)
    /\ UNCHANGED <<incVars, appendArgs, appendResult, appendCase, overlapped,
                   pairVars, handed, streamVars>>

InitRace == InitArchive

NextRace == \E p \in Procs : BeginAppend(p) \/ FinishAppend(p)

RaceSpec == InitRace /\ [][NextRace]_vars

---------------------------------------------------------------------------
(* Properties of concurrent appends                                        *)

\* The volumes of the image at the path of an incremental
VolumesAt(arch, inc) ==
    IF imageFilePath(inc.meta) \in DOMAIN arch.images
    THEN arch.images[imageFilePath(inc.meta)].vols ELSE <<>>

\* The volumes of the appenders that wrote, in the order of their writes
WrittenVolumes == [i \in 1..Len(finished) |-> appenders[finished[i]].inc.vols[1]]

\* C11: appends that run one after the other never lose a volume (the image
\* holds, after the volumes it began with, the volume of every append that
\* succeeded, in append order); when appends overlap the last write wins:
\* the image ends with the volume of the last writer, and an interleaving
\* in which both succeed while the image holds the volume of only one of
\* them is reachable.
C11_LastWriteWins ==
    /\ finished # <<>> =>
         LET w == appenders[finished[Len(finished)]]
             vols == VolumesAt(archive, w.inc)
         IN  /\ w.result = "ok"
             /\ vols # <<>>
             /\ vols[Len(vols)] = w.inc.vols[1]
    /\ (~overlapped /\ finished # <<>>) =>
         \E begun \in InitialArchives :
            VolumesAt(archive, appenders[finished[1]].inc)
              = VolumesAt(begun, appenders[finished[1]].inc) \o WrittenVolumes

C11_Witness ==
    /\ overlapped
    /\ Len(finished) = 2
    /\ \A p \in Procs : appenders[p].result = "ok"
    /\ appenders[1].inc.vols # appenders[2].inc.vols
    /\ \E p \in Procs :
          appenders[p].inc.vols[1] \notin Range(VolumesAt(archive, appenders[p].inc))

---------------------------------------------------------------------------
(* Two incrementals side by side.  The dataset metadata of an incremental  *)
(* is a mapping in memory that the incremental refers to: objects maps the *)
(* name that holds a mapping to the mapping, and an incremental records    *)
(* the name its datasetMetadata attribute is bound to.                     *)

NaN == <<"nan">>

\* Voxel data: two arrays of numbers that differ, and one that holds a NaN
VoxelArrays ==
    {<<NumV(0), NumV(1000)>>, <<NumV(1000), NumV(1000)>>, <<NaN, NumV(1000)>>}

\* a == b on floating-point voxels: a NaN equals nothing
VoxelEq(a, b) == a # NaN /\ b # NaN /\ a = b

\* np.array_equal(d1, d2): same shape, and every element equal
array_equal(d1, d2) ==
    /\ Len(d1) = Len(d2)
    /\ \A i \in 1..Len(d1) : VoxelEq(d1[i], d2[i])

\* A variant that skips the dataset metadata
BidsIncrementalEq_NoDataset(self, other) ==
    IF self.header # other.header THEN FALSE
    ELSE IF self.meta # other.meta THEN FALSE
    ELSE IF ~array_equal(self.data, other.data) THEN FALSE
    ELSE TRUE

\* BidsIncremental.__eq__(self, other); the header comparison is that of
\* the headers' bytes
BidsIncrementalEq(self, other) ==
    IF self.header # other.header THEN FALSE
    ELSE IF self.meta # other.meta THEN FALSE
    ELSE IF self.datasetMetadata # other.datasetMetadata THEN FALSE
    ELSE IF ~array_equal(self.data, other.data) THEN FALSE
    ELSE TRUE

Incs == {"inc1", "inc2"}

\* __init__, "Store dataset metadata": with no argument the attribute is
\* bound to the module's DEFAULT_DATASET_DESC, with one to a deep copy of it
storeDatasetMetadata(heap, id, dsArg) ==
    IF dsArg = "None"
    THEN [dataset |-> "DEFAULT_DATASET_DESC", objects |-> heap]
    ELSE [dataset |-> id, objects |-> Put(heap, id, heap[dsArg])]

\* The incremental constructed from a one-volume image with the given
\* qform_code, vox_offset and voxels, the raw metadata and the dataset
\* metadata bound to a name; the image made for three axes takes over the
\* header of the one given
PairIncremental(heap, id, raw, qform_code, vox_offset, data, dsArg) ==
    LET r == BidsIncrementalInit(Image("Nifti1Image", <<2, 2, 2>>), raw, Omitted)
        d == storeDatasetMetadata(heap, id, dsArg)
    IN  [inc |-> [header |-> [Header(Len(r.dims), qform_code, 1000, r.pixdim4[2])
                                 EXCEPT !.vox_offset = vox_offset],
                  meta |-> r.imgMetadata,
                  dataset |-> d.dataset,
                  data |-> data],
         objects |-> d.objects]

\* The constructor arguments tried: a plain incremental and the ones that
\* differ from it in one argument
PairBase ==
    [raw |-> AppendRaw(IntV(1), StrV("12:48:00"), NoneVal), qform_code |-> 0,
     vox_offset |-> single_vox_offset,
     data |-> <<NumV(0), NumV(1000)>>, dsArg |-> "None"]

\* Metadata with a tuple for a value, and with the extension of the file
\* the image came from
TupleRaw == Put(PairBase.raw, "ImageType", TupleV("[\"ORIGINAL\", \"PRIMARY\"]"))
ExtensionRaw == Put(PairBase.raw, "extension", StrV(".nii"))

PairArguments ==
    {PairBase,
     [PairBase EXCEPT !.raw = AppendRaw(IntV(1), StrV("12:48:02"), NoneVal)],
     [PairBase EXCEPT !.raw = TupleRaw],
     [PairBase EXCEPT !.raw = ExtensionRaw],
     [PairBase EXCEPT !.qform_code = 1],
     \* an image made in memory, nib.Nifti1Image(data, affine)
     [PairBase EXCEPT !.vox_offset = unset_vox_offset],
     [PairBase EXCEPT !.dsArg = "caller"]}
    \cup {[PairBase EXCEPT !.data = d] : d \in VoxelArrays}

\* The memory before the constructions: the module's default and the
\* mapping the caller holds
InitialObjects ==
    [name \in {"DEFAULT_DATASET_DESC", "caller"} |->
        IF name = "caller" THEN CompleteDataset ELSE DEFAULT_DATASET_DESC]

\* The incremental as its methods see it
Self(id) ==
    [header |-> incs[id].header, meta |-> incs[id].meta,
     datasetMetadata |-> objects[incs[id].dataset], data |-> incs[id].data]

InitPair ==
    /\ InitIncremental({<<Image("Nifti1Image", <<2, 2, 2>>), CompleteMetadata, Omitted>>})
    /\ InitAppends({EmptyArchive})
    /\ handed = NotHanded
    /\ NoStream
    /\ \E a1 \in PairArguments, a2 \in PairArguments :
         \E c1 \in {PairIncremental(InitialObjects, "inc1", a1.raw, a1.qform_code,
                                    a1.vox_offset, a1.data, a1.dsArg)} :
         \E c2 \in {PairIncremental(c1.objects, "inc2", a2.raw, a2.qform_code,
                                    a2.vox_offset, a2.data, a2.dsArg)} :
            /\ incs = [id \in Incs |-> IF id = "inc1" THEN c1.inc ELSE c2.inc]
            /\ objects = c2.objects
    /\ pairOp = NoPairOp
    /\ disk = EmptyDisk

\* left == right
Compare ==
    \E left \in Incs, right \in Incs :
        /\ pairOp' = [op |-> "eq", left |-> left, right |-> right,
                      result |-> BidsIncrementalEq(Self(left), Self(right))]
        /\ UNCHANGED <<incVars, archiveVars, raceVars, incs, objects, disk, handed, streamVars>>

\* json.dump of a value: JSON has strings, numbers (written without a
\* fraction part for an int, with one for a float), arrays and null; a
\* list and a tuple are both written as an array
jsonValue(v) ==
    CASE v = NoneVal -> <<"null">>
      [] IsStr(v) -> <<"string", v[2]>>
      [] IsInt(v) -> <<"number", v[2], FALSE>>
      [] IsNum(v) -> <<"number", v[2], TRUE>>
      [] OTHER -> <<"array", v[2]>>

\* json.load of a value: an array is read as a list
pyValue(j) ==
    CASE j[1] = "null" -> NoneVal
      [] j[1] = "string" -> StrV(j[2])
      [] j[1] = "number" -> IF j[3] THEN NumV(j[2]) ELSE IntV(j[2])
      [] OTHER -> ListV(j[2])

jsonDump(mapping) == [k \in DOMAIN mapping |-> jsonValue(mapping[k])]
jsonLoad(file) == [k \in DOMAIN file |-> pyValue(file[k])]

\* nib.save(image, path) of a single-file NIfTI image: the header is
\* written with the place of the voxels in the file, which is set when the
\* header leaves it unset; the image in memory keeps its header
niftiSave(header, data) ==
    [header |-> [header EXCEPT !.vox_offset =
                    IF @ = unset_vox_offset THEN single_vox_offset ELSE @],
     data |-> data]

\* nib.load(path): the header and the voxels the file holds
niftiLoad(file) == [header |-> file.header, data |-> file.data]

\* self.events: the empty table of the default columns, as to_csv writes it
EventsFile == <<"", "onset", "duration", "response_time">>

\* self.readme
Readme == "Generated BIDS-Incremental Dataset from RT-Cloud"

\* writeToArchive: the metadata written to the sidecar
metadataToWrite(meta) == sidecarMetadata(meta)

\* BidsIncremental.writeToArchive(datasetRoot): the directory is derived by
\* self.dataDirPath, the file names by makeBidsFileName on the metadata as
\* that call left it; the result is the directory and the metadata after
writeToArchive(self, root, normalises) ==
    LET mem == [imgMetadata |-> self.meta, entities |-> EmptyMap]
        dir == dataDirPathCall(mem, normalises)
        meta == dir.mem.imgMetadata
        dataDir == dir.ret
        imagePath == <<dataDir, imageFileName(meta)>>
        metadataPath == <<dataDir, metadataFileName(meta)>>
        eventsPath == <<dataDir, eventsFileName(meta)>>
    IN  [disk |->
            [data |-> Put(Put(Put(root.data,
                                  imagePath, niftiSave(self.header, self.data)),
                              metadataPath, jsonDump(metadataToWrite(meta))),
                          eventsPath, EventsFile),
             root |-> Put(Put(root.root, "dataset_description.json",
                              jsonDump(self.datasetMetadata)),
                          "README", Readme),
             dirs |-> root.dirs \cup {dataDir}],
         meta |-> meta]

\* An incremental is written to the directory, empty until then
WriteToArchive ==
    /\ disk = EmptyDisk
    /\ \E id \in Incs, normalises \in BOOLEAN :
          \E w \in {writeToArchive(Self(id), disk, normalises)} :
              /\ disk' = w.disk
              /\ incs' = [incs EXCEPT ![id].meta = w.meta]
              /\ pairOp' = [op |-> "write", left |-> id, right |-> "", result |-> TRUE]
    /\ UNCHANGED <<incVars, archiveVars, raceVars, objects, handed, streamVars>>

\* The dataset name a mapping is given when it is changed
NewDatasetName == StrV("renamed")

\* inc.datasetMetadata["Name"] = value: the mapping the attribute is bound
\* to changes, for every name that holds it
SetDatasetField ==
    \E id \in Incs :
        /\ objects' = [objects EXCEPT ![incs[id].dataset] =
                          Put(@, "Name", NewDatasetName)]
        /\ pairOp' = [op |-> "set", left |-> id, right |-> "", result |-> TRUE]
        /\ UNCHANGED <<incVars, archiveVars, raceVars, incs, disk, handed, streamVars>>

\* The caller changes the mapping it passed to the constructors
CallerSetsDatasetField ==
    /\ objects' = [objects EXCEPT !["caller"] = Put(@, "Name", NewDatasetName)]
    /\ pairOp' = [op |-> "set", left |-> "caller", right |-> "", result |-> TRUE]
    /\ UNCHANGED <<incVars, archiveVars, raceVars, incs, disk, handed, streamVars>>

NextPair == Compare \/ WriteToArchive \/ SetDatasetField \/ CallerSetsDatasetField

PairSpec == InitPair /\ [][NextPair]_vars

---------------------------------------------------------------------------
(* Properties of the incrementals side by side                             *)

\* C12 as stated: left == right is true exactly when the headers are equal,
\* the image metadata mappings are equal, the dataset metadata mappings are
\* equal and the voxel arrays are element-wise equal; every incremental is
\* equal to itself, and left == right is right == left.
C12_Original ==
    pairOp.op = "eq" =>
        LET a == Self(pairOp.left)
            b == Self(pairOp.right)
        IN  /\ pairOp.result =
                 (/\ a.header = b.header
                  /\ a.meta = b.meta
                  /\ a.datasetMetadata = b.datasetMetadata
                  /\ array_equal(a.data, b.data))
            /\ pairOp.left = pairOp.right => pairOp.result
            /\ pairOp.result = BidsIncrementalEq(b, a)

HasNaN(data) == \E i \in 1..Len(data) : data[i] = NaN

\* C12 amended: left == right is true exactly when the headers are equal,
\* the image metadata mappings are equal, the dataset metadata mappings are
\* equal and the voxel arrays are element-wise equal, where a NaN voxel
\* equals nothing; left == right is right == left; an incremental is equal
\* to itself exactly when its voxel data holds no NaN.
C12_EqualityContract ==
    pairOp.op = "eq" =>
        LET a == Self(pairOp.left)
            b == Self(pairOp.right)
        IN  /\ pairOp.result =
                 (/\ a.header = b.header
                  /\ a.meta = b.meta
                  /\ a.datasetMetadata = b.datasetMetadata
                  /\ Len(a.data) = Len(b.data)
                  /\ \A i \in 1..Len(a.data) :
                        a.data[i] = b.data[i] /\ a.data[i] # NaN)
            /\ pairOp.left = pairOp.right => (pairOp.result = ~HasNaN(a.data))
            /\ pairOp.result = BidsIncrementalEq(b, a)

C12_Witness ==
    /\ pairOp.op = "eq"
    /\ pairOp.left # pairOp.right
    /\ pairOp.result
    /\ incs["inc1"] # incs["inc2"]
    /\ Self("inc1") = Self("inc2")

---------------------------------------------------------------------------
(* Properties of the name and path derivation                              *)

\* C13: a name or path property read on an incremental leaves the metadata
\* as it was (the call changes nothing), and reading it again on the
\* incremental as it is returns the same value.
C13_Claim ==
    (pc = "constructed" /\ last.op = "derive") =>
        /\ imgMetadata = last.before
        /\ \A normalises \in BOOLEAN :
              derivePath(imgMetadata, last.field, normalises).ret = last.ret

---------------------------------------------------------------------------
(* Properties of the metadata and header comparison                        *)

\* The metadata mappings the comparison is tried on: those of the
\* incrementals appended and of the archive made by hand
ComparedMetadatas == {inc.meta : inc \in AppendIncrementals} \cup {HandMadeMetadata}

\* What metadataMatches returns: a field present in one side only is
\* skipped, so SeriesDescription "A" against none matches when nothing else
\* conflicts; AcquisitionTime present in both and equal does not match
MetadataMatchingRules ==
    \A m1 \in ComparedMetadatas, m2 \in ComparedMetadatas :
        /\ (Has(m1, "AcquisitionTime") /\ Has(m2, "AcquisitionTime")
            /\ m1["AcquisitionTime"] = m2["AcquisitionTime"])
           => ~metadataMatches(m1, m2)
        /\ (Has(m1, "SeriesDescription") # Has(m2, "SeriesDescription")
            /\ Get(m1, "AcquisitionTime") # Get(m2, "AcquisitionTime"))
           => metadataMatches(m1, m2)
        /\ metadataMatches(m1, m2) = metadataMatches(m2, m1)

\* C15 as stated: the rules of metadataMatches, and an append of the
\* incremental that the previous, successful, append appended is rejected.
C15_Original ==
    [][/\ MetadataMatchingRules
       /\ (appendResult = "ok" /\ appendArgs'.inc = appendArgs.inc)
          => appendResult' = "ValidationError"]_vars

\* The last append appended the incremental whose metadata the sidecar at
\* its path holds, to the image that this incremental had created
RepeatsCreator ==
    /\ appendCase \notin {"none", "created"}
    /\ imageFilePath(appendArgs.inc.meta) \in DOMAIN archive.images
    /\ archive.images[imageFilePath(appendArgs.inc.meta)].header = appendArgs.inc.header
    /\ archive.sidecars[metadataFilePath(appendArgs.inc.meta)]
         = sidecarMetadata(appendArgs.inc.meta)

\* C15 amended: the rules of metadataMatches hold, and an append of the
\* incremental that created the image at its path (the one whose metadata
\* the sidecar holds) is rejected with a validation error.  The sidecar is
\* not rewritten by a merge, so a repeat of a later incremental is compared
\* with the first one's AcquisitionTime and is not rejected.
C15_RepeatOfCreatorRejected ==
    /\ MetadataMatchingRules
    /\ RepeatsCreator =>
         (appendResult = "ValidationError" /\ appendCase = "metadata mismatch")

C15_Witness ==
    /\ RepeatsCreator
    /\ appendResult = "ValidationError"
    /\ archive.images[imageFilePath(appendArgs.inc.meta)].vols
         = appendArgs.inc.vols \o <<"b">>
    /\ \E m \in ComparedMetadatas :
          /\ Has(m, "SeriesDescription")
          /\ ~Has(appendArgs.inc.meta, "SeriesDescription")
          /\ metadataMatches(m, appendArgs.inc.meta)

\* Two headers are identical but for pixdim entries that are not matched:
\* an entry beyond the dimensionality one of them declares, or an entry
\* that is 0 in one and 1 in the other
SameButUnmatched(h1, h2) ==
    /\ h1.qform_code = h2.qform_code
    /\ \A i \in 1..4 :
          \/ h1.pixdim[i] = h2.pixdim[i]
          \/ i > Min(h1.dim0, h2.dim0)
          \/ {h1.pixdim[i], h2.pixdim[i]} = {0, 1000}

\* C16: when an incremental is appended to an image that exists, its header
\* and the image's match if they are identical but for unmatched pixdim
\* entries (beyond the declared dimensionality, or 0 against 1), and do not
\* match if they differ in qform_code, in which case the append is rejected
\* for the header.
C16_HeaderMatching ==
    [][LET inc == appendArgs'.inc
           path == imageFilePath(inc.meta)
       IN  path \in DOMAIN archive.images =>
             LET h1 == inc.header
                 h2 == archive.images[path].header
             IN  /\ SameButUnmatched(h1, h2) =>
                      (headersMatch(h1, h2) /\ appendCase' # "header mismatch")
                 /\ h1.qform_code # h2.qform_code =>
                      (~headersMatch(h1, h2) /\ appendCase' = "header mismatch")
                 /\ headersMatch(h1, h2) = headersMatch(h2, h1)]_vars

C16_Witness ==
    /\ appendCase = "merged"
    /\ LET image == archive.images[imageFilePath(appendArgs.inc.meta)]
       IN  /\ image.vols = <<"z">> \o appendArgs.inc.vols
           /\ image.header.pixdim[4] # appendArgs.inc.header.pixdim[4]
           /\ image.header.pixdim[3] = 1000
           /\ appendArgs.inc.header.pixdim[3] = 0

---------------------------------------------------------------------------
(* The imageMetadata accessor, and what the caller does with the mapping   *)
(* it returns.  A list is an object: a mapping copied key by key refers to *)
(* the same list as the mapping it was copied from.                        *)


\* dict.copy(): a new mapping with the same values
shallowCopy(mapping) ==
    [map |-> mapping, aliases |-> {k \in DOMAIN mapping : IsList(mapping[k])}]

\* BidsIncremental.imageMetadata
imageMetadata(meta) == shallowCopy(meta)

ReadImageMetadata ==
    /\ pc = "constructed"
    /\ ~handed.taken
    /\ \E r \in {imageMetadata(imgMetadata)} :
          handed' = [taken |-> TRUE, map |-> r.map, aliases |-> r.aliases,
                     original |-> imgMetadata]
    /\ UNCHANGED <<incVars, archiveVars, raceVars, pairVars, streamVars>>

\* The keys and the value the caller uses
CallerKeys == {"SliceTiming", "task", "Comment"}
CallerValue == StrV("caller's")

\* returned[key] = value
CallerSets ==
    /\ handed.taken
    /\ \E key \in CallerKeys :
          handed' = [handed EXCEPT !.map = Put(@, key, CallerValue),
                                   !.aliases = @ \ {key}]
    /\ UNCHANGED <<incVars, archiveVars, raceVars, pairVars, streamVars>>

\* del returned[key]
CallerRemoves ==
    /\ handed.taken
    /\ \E key \in CallerKeys \cap DOMAIN handed.map :
          handed' = [handed EXCEPT !.map = Pop(@, key), !.aliases = @ \ {key}]
    /\ UNCHANGED <<incVars, archiveVars, raceVars, pairVars, streamVars>>

\* The list after a change made in place
ChangedList == ListV("changed in place")

\* returned[key][0] = x: the list object changes, for every mapping that
\* refers to it
CallerChangesList ==
    /\ handed.taken
    /\ \E key \in DOMAIN handed.map :
          /\ IsList(handed.map[key])
          /\ handed' = [handed EXCEPT !.map = Put(@, key, ChangedList)]
          /\ imgMetadata' = IF key \in handed.aliases
                            THEN Put(imgMetadata, key, ChangedList)
                            ELSE imgMetadata
          \* the list is also the caller's where the raw mapping gave it
          /\ argImageMetadata' =
                IF key \in handed.aliases
                   /\ (key \in binding.shared \/ binding.object = "caller")
                THEN Put(argImageMetadata, key, ChangedList)
                ELSE argImageMetadata
    /\ UNCHANGED <<argImage, argDatasetMetadata, pc, err, missingFields,
                   datasetMetadata, imageDimensions, pixdim4, last, binding>>
    /\ UNCHANGED <<archiveVars, raceVars, pairVars, streamVars>>

InitCopy == InitOps

NextCopy ==
    \/ Construct
    \/ ReadImageMetadata
    \/ CallerSets
    \/ CallerRemoves
    \/ CallerChangesList
    \/ GetField

CopySpec == InitCopy /\ [][NextCopy]_vars

---------------------------------------------------------------------------
(* Properties of the imageMetadata accessor                                *)

\* C17: whatever the caller does to the mapping that imageMetadata
\* returned (adding, replacing or removing a key, changing a list in
\* place), getMetadataField returns for every field what it returned when
\* the mapping was handed over.
C17_Claim ==
    handed.taken =>
        \A field \in DOMAIN handed.original :
            getMetadataField(imgMetadata, field, FALSE).ret = handed.original[field]

---------------------------------------------------------------------------
(* Properties of the caller's mappings                                     *)

\* C18: no step of an incremental (its construction, with ProtocolName
\* parsing, SliceTiming injection, time-unit normalisation and run
\* coercion, and every later get, set, remove or path read) changes the
\* raw imageMetadata mapping of the caller.
C18_RawUnchanged == [][argImageMetadata' = argImageMetadata]_vars

C18_Witness ==
    /\ pc = "constructed"
    /\ last.op \in {"set", "remove"}
    /\ last.err = "none"
    /\ imgMetadata # last.before
    /\ binding.object = "own"
    /\ "ProtocolName" \in DOMAIN argImageMetadata
    /\ "session" \in DOMAIN imgMetadata
    /\ "session" \notin DOMAIN argImageMetadata
    /\ "SliceTiming" \notin DOMAIN argImageMetadata
    /\ argImageMetadata["RepetitionTime"] = NumV(1500000)
    /\ imgMetadata["RepetitionTime"] = NumV(1500)

---------------------------------------------------------------------------
(* Properties of the derived fields                                        *)

\* C19: in the metadata of every incremental, right after construction and
\* after any sequence of field operations, TaskName is present and equal
\* to task.
C19_Claim ==
    pc = "constructed" =>
        /\ "TaskName" \in DOMAIN imgMetadata
        /\ "task" \in DOMAIN imgMetadata
        /\ imgMetadata["TaskName"] = imgMetadata["task"]

\* C20: a change made to the datasetMetadata of one incremental, or to the
\* mapping the caller passed to the constructors, leaves the
\* datasetMetadata of every other incremental as it was, also when the
\* incrementals were constructed without dataset metadata.
C20_Claim ==
    [][pairOp'.op = "set" =>
         \A id \in Incs \ {pairOp'.left} :
            objects'[incs[id].dataset] = objects[incs[id].dataset]]_vars

---------------------------------------------------------------------------
(* Precedence of the raw input over the fields the construction fills in   *)

\* The raw mapping carries a ProtocolName of the session/task/run form
ProtocolNameMatches ==
    metadataFromProtocolName(Get(argImageMetadata, "ProtocolName")) # EmptyMap

\* What _preprocessAndSetMetadata holds before it applies the raw mapping:
\* the fields parsed from ProtocolName and the SliceTiming placeholder
FilledIn ==
    Put(metadataFromProtocolName(Get(argImageMetadata, "ProtocolName")),
        "SliceTiming", SliceTimingPlaceholder)

\* The fields both filled in and given by the raw mapping
Conflicting == (DOMAIN FilledIn) \cap (DOMAIN argImageMetadata)

\* A required field the raw mapping lacks and ProtocolName supplies is not
\* reported missing
ParsedCountsAsPresent ==
    (pc # "new" /\ ProtocolNameMatches)
    => \A f \in (DOMAIN FilledIn) \cap RequiredSet : f \notin Range(missingFields)

\* C21 as stated: when ProtocolName matches, the parsed fields are in the
\* constructed incremental's metadata, every field both filled in (parsed or
\* the SliceTiming placeholder) and given by the raw input holds the raw
\* input's value, and a required field only ProtocolName supplies counts as
\* present.
C21_Original ==
    /\ (pc = "constructed" /\ ProtocolNameMatches)
       => /\ DOMAIN FilledIn \subseteq DOMAIN imgMetadata
          /\ \A f \in Conflicting : imgMetadata[f] = argImageMetadata[f]
    /\ ParsedCountsAsPresent

\* C21 amended: when ProtocolName matches, every filled-in field the raw input
\* also gives holds the value derived from the raw input and never the
\* parsed or placeholder one: the raw value itself for session, task and
\* SliceTiming, and int(raw value) for run (a raw run "01" is held as 1); a
\* filled-in field the raw input does not give holds the parsed value (run as
\* an integer) or the placeholder; and a required field only ProtocolName
\* supplies is not reported missing.
C21_RawTakesPrecedence ==
    /\ (pc = "constructed" /\ ProtocolNameMatches)
       => \A f \in DOMAIN FilledIn :
             /\ f \in DOMAIN imgMetadata
             /\ LET v == IF f \in DOMAIN argImageMetadata
                         THEN argImageMetadata[f] ELSE FilledIn[f]
                IN  imgMetadata[f] = IF f = "run" THEN IntOf(v) ELSE v
    /\ ParsedCountsAsPresent

C21_Witness ==
    /\ pc = "constructed"
    /\ ProtocolNameMatches
    /\ Conflicting = {"session", "task", "run", "SliceTiming"}
    /\ argImageMetadata["run"] = IntV(2)
    /\ imgMetadata["run"] = IntV(2)
    /\ imgMetadata["task"] = StrV("story")
    /\ imgMetadata["session"] = StrV("02")
    /\ imgMetadata["SliceTiming"] = ListV("[0.0, 0.75]")

---------------------------------------------------------------------------
(* The sample streamers: rtCommon/bidsStreamer.py and the one of           *)
(* projects/OpenNeuroSample/streamer_test.py.  A streamer keeps an index   *)
(* and hands out, call by call, the image at that index of the data        *)
(* behind it.                                                              *)

\* The calls made on one streamer
MaxCalls == 4

\* The number of time points streamer_test.py takes an archive to hold
NUM_TIMEPOINTS == 146

StreamerClasses == {"rtCommon", "OpenNeuroSample"}
DatasetTypes == {"archive", "openNeuro", "dicom", "dicomDir", "other"}

\* The sliceIndex a streamer is created with (-1 is the default)
SliceIndexes == {-1, 0, 144}
\* The index get_next_image is called with (0 is the default: no index)
DefinedIndexes == {0, 1, 145, 146}
\* The number of time points of the data behind the streamer
VolumeCounts == {2, 146}

\* The image at one time point, and the dataset object itself
SliceV(i) == <<"slice", i>>
DatasetV == <<"dataset">>

\* The outcome of a read: the exception raised ("none" when it returns) and
\* the value returned
ReadResult(e, ret) == [err |-> e, ret |-> ret]

\* BidsArchive(path).getIncremental(sliceIndex=...): the image at the index,
\* an error of its own for an index the image does not have, the read error
\* when the archive cannot be read
getIncremental(numVolumes, sliceIndex, readFails) ==
    IF readFails THEN ReadResult("OSError", NoneVal)
    ELSE IF sliceIndex \in 0..(numVolumes - 1)
    THEN ReadResult("none", SliceV(sliceIndex))
    ELSE ReadResult("IndexError", NoneVal)

\* OpenNeuroUpdate.dataset_Bidsinc(sliceIndex=...): the pair (incremental,
\* number of time points); it returns the pair for every index, since
\* streamer_test.py reads the number of time points from it before it
\* compares the index with that number
dataset_Bidsinc(numVolumes, sliceIndex, downloadFails) ==
    IF downloadFails THEN ReadResult("OSError", NoneVal)
    ELSE ReadResult("none",
                    <<IF sliceIndex \in 0..(numVolumes - 1)
                      THEN SliceV(sliceIndex) ELSE NoneVal,
                      numVolumes>>)

\* list[index] on a list of numVolumes incrementals
listItem(numVolumes, index) ==
    IF index \in (0 - numVolumes)..(numVolumes - 1)
    THEN ReadResult("none", SliceV(index % numVolumes))
    ELSE ReadResult("IndexError", NoneVal)

\* What a call leaves: the exception raised, the value returned, self.index,
\* the slice indexes it asked the data for, and whether a read of the data
\* raised a read error during the call
Served(e, ret, index, queried, faulted) ==
    [err |-> e, ret |-> ret, index |-> index, queried |-> queried,
     faulted |-> faulted]

\* A variant that continues after the explicit index instead of at it
nextIndex_NoOffset(index, definedIndex) ==
    (IF definedIndex # 0 THEN definedIndex ELSE index) + 1

\* if definedIndex != 0: self.index = definedIndex - 1
\* self.index += 1
nextIndex(index, definedIndex) ==
    (IF definedIndex # 0 THEN definedIndex - 1 ELSE index) + 1

\* rtCommon/bidsStreamer.py: bidsStreamer.get_next_image(definedIndex)
get_next_image(self, numVolumes, definedIndex, readFails, downloadFails) ==
    LET index == nextIndex(self.index, definedIndex)
        fromArchive == getIncremental(numVolumes, index, readFails)
        fromDownload == dataset_Bidsinc(numVolumes, index, downloadFails)
    IN  CASE self.type = "archive" ->
                Served(fromArchive.err, fromArchive.ret, index, <<index>>, readFails)
          [] self.type = "openNeuro" ->
                \* try: getIncremental  except: (anything) download instead
                IF fromArchive.err = "none"
                THEN Served("none", fromArchive.ret, index, <<index>>, FALSE)
                ELSE IF fromDownload.err # "none"
                THEN Served(fromDownload.err, NoneVal, index, <<index, index>>, TRUE)
                ELSE Served("none", fromDownload.ret[1], index, <<index, index>>,
                            readFails)
          [] self.type = "dicom" ->
                Served("none", DatasetV, index, <<>>, FALSE)
          [] self.type = "dicomDir" ->
                \* self.dataset is the BidsArchive of __init__, which has no
                \* item access
                Served("TypeError", NoneVal, index, <<>>, FALSE)
          [] OTHER ->
                Served("none", NoneVal, index, <<>>, FALSE)

\* projects/OpenNeuroSample/streamer_test.py: bidsStreamer.get_next_image(index)
sample_get_next_image(self, numVolumes, definedIndex, readFails, downloadFails) ==
    LET index == nextIndex(self.index, definedIndex)
        fromArchive == getIncremental(numVolumes, index, readFails)
        fromDownload == dataset_Bidsinc(numVolumes, index, downloadFails)
        fromList == listItem(numVolumes, index)
    IN  CASE self.type = "archive" ->
                IF index >= NUM_TIMEPOINTS
                THEN Served("StopIteration", NoneVal, index, <<>>, FALSE)
                ELSE Served(fromArchive.err, fromArchive.ret, index, <<index>>,
                            readFails)
          [] self.type = "openNeuro" ->
                IF fromDownload.err # "none"
                THEN Served(fromDownload.err, NoneVal, index, <<index>>, TRUE)
                ELSE IF index >= fromDownload.ret[2]
                THEN Served("StopIteration", NoneVal, index, <<index>>, FALSE)
                ELSE Served("none", fromDownload.ret[1], index, <<index, index>>, FALSE)
          [] self.type = "dicom" ->
                Served("none", DatasetV, index, <<>>, FALSE)
          [] self.type = "dicomDir" ->
                Served(fromList.err, fromList.ret, index, <<index>>, FALSE)
          [] OTHER ->
                Served("none", NoneVal, index, <<>>, FALSE)

\* One call and what is remembered of it: origin is the sliceIndex of the
\* constructor or the last explicit index, since counts the calls without an
\* index made after it
Call(definedIndex, r) ==
    /\ streamer' = [streamer EXCEPT !.index = r.index]
    /\ served' = [calls |-> served.calls + 1,
                  definedIndex |-> definedIndex,
                  err |-> r.err, ret |-> r.ret,
                  queried |-> r.queried, faulted |-> r.faulted,
                  origin |-> IF definedIndex # 0 THEN definedIndex ELSE served.origin,
                  since |-> IF definedIndex # 0 THEN 0 ELSE served.since + 1]
    /\ UNCHANGED <<incVars, archiveVars, raceVars, pairVars, handed, volumes>>

GetNextImage ==
    /\ streamer.cls = "rtCommon"
    /\ served.calls < MaxCalls
    /\ \E definedIndex \in DefinedIndexes, readFails \in BOOLEAN, downloadFails \in BOOLEAN :
          \E r \in {get_next_image(streamer, volumes, definedIndex,
                                   readFails, downloadFails)} :
             Call(definedIndex, r)

SampleGetNextImage ==
    /\ streamer.cls = "OpenNeuroSample"
    /\ served.calls < MaxCalls
    /\ \E definedIndex \in DefinedIndexes, readFails \in BOOLEAN, downloadFails \in BOOLEAN :
          \E r \in {sample_get_next_image(streamer, volumes, definedIndex,
                                          readFails, downloadFails)} :
             Call(definedIndex, r)

\* bidsStreamer.__init__(..., datasetType, sliceIndex)
InitStream ==
    /\ InitIncremental({<<Image("Nifti1Image", <<2, 2, 2>>), CompleteMetadata, Omitted>>})
    /\ InitAppends({EmptyArchive})
    /\ NoPair
    /\ handed = NotHanded
    /\ \E cls \in StreamerClasses, type \in DatasetTypes, sliceIndex \in SliceIndexes :
          /\ streamer = [cls |-> cls, type |-> type, index |-> sliceIndex]
          /\ served = NotServed(sliceIndex)
    /\ volumes \in VolumeCounts

NextStream == GetNextImage \/ SampleGetNextImage

StreamSpec == InitStream /\ [][NextStream]_vars

---------------------------------------------------------------------------
(* Properties of the streamers                                             *)

\* The data behind the streamer is a series of time points
HasTimePoints == streamer.type \in {"archive", "openNeuro", "dicomDir"}

\* C22: once the index has reached the number of time points of the data, a
\* call (one during which no read failed) ends with StopIteration, neither
\* returning a value nor raising another error; and a call during which a read
\* of the data failed ends with that error, neither returning a value nor
\* signalling the end of the stream.
C22_Claim ==
    (served.calls > 0 /\ HasTimePoints)
    => /\ (streamer.index >= volumes /\ ~served.faulted)
          => served.err = "StopIteration"
       /\ served.faulted => served.err \notin {"none", "StopIteration"}

\* C23: after every call the index is the origin (the constructor's
\* sliceIndex s, or the last explicit non-zero index k) plus the number of
\* calls without an index made since (s+n for the n-th call; k, k+1, k+2, ...
\* after a call with index k), it has advanced by exactly 1 in a call without
\* an index, and that index is the slice the call asked the data for.
C23_SlicesInOrder ==
    served.calls > 0
    => /\ streamer.index = served.origin + served.since
       /\ \A i \in DOMAIN served.queried :
             served.queried[i] = served.origin + served.since

C23_Witness ==
    /\ streamer.cls = "rtCommon"
    /\ streamer.type = "archive"
    /\ served.calls = 3
    /\ served.origin = 145
    /\ served.since = 2
    /\ served.queried = <<147>>

=============================================================================
